---- MODULE Spec2Model ----
(***************************************************************************)
(* Ambulance dispatch of the hospital backend: the handlers of             *)
(* app/routes/patient.py (request_ambulance, get_nearby_ambulances),       *)
(* app/routes/ambulance.py (accept_request, reject_request,                *)
(* complete_mission, update_availability, update_location,                 *)
(* mark_notification_read, register_ambulance) and app/routes/admin.py     *)
(* (admin_update_ambulance) over the tables `ambulances` and               *)
(* `notifications`.                                                        *)
(* A handler is not atomic: every SupabaseClient.execute_query call is one *)
(* step, and the steps of concurrent handler calls interleave.             *)
(***************************************************************************)
EXTENDS Integers, Sequences, FiniteSets, TLC

(* ---- bounds ---- *)
MaxCalls == 2
MaxNotifications == 2
MaxFleet == 3
MaxRegistered == 2

(* ---- the fixed population ---- *)
Operators == {"op1", "op2"}
PatientUsers == {"pat1"}
Users == Operators \cup PatientUsers
AmbulanceIds == {1, 2}
AmbulanceArgs == {1, 2, 3}
CallIds == 1 .. MaxCalls
NotificationArgs == 1 .. MaxNotifications
NoLocation == << >>
(* the latitude and longitude a patient sends with a request *)
PatientLocations == {<<"6.9271", "79.8612">>}

None == "None"
NoRow == [notification_id |-> 0, user_id |-> None, type |-> None,
          title |-> None, message |-> << >>, is_read |-> FALSE]

(* the rows of table `patients`: user_id -> profile *)
patients == [u \in PatientUsers |-> [patient_id |-> 1, full_name |-> "Alice", phone |-> "0770000000"]]

VARIABLES ambulances, notifications, next_notification_id, calls, mission, faults

vars == <<ambulances, notifications, next_notification_id, calls, mission, faults>>

Idle == [op |-> "idle", pc |-> "idle", user |-> None, nid |-> 0, amb |-> 0,
         flag |-> FALSE, loc |-> NoLocation, owner |-> None, row |-> NoRow,
         cleared |-> 0, code |-> 0, data |-> << >>, rows |-> << >>, result |-> << >>,
         emailed |-> FALSE, number |-> None, avail |-> << >>]

(* ---- SupabaseClient.execute_query on the two tables ---- *)

(* The 'success' value of one execute_query call: the except branch returns *)
(* success False when the store raises, which happens only in a run where   *)
(* the store is faulty.                                                      *)
QueryOutcomes == IF faults THEN BOOLEAN ELSE {TRUE}

(* select * from ambulances where user_id = u *)
AmbulancesOfUser(u) == {a \in DOMAIN ambulances : ambulances[a].user_id = u}

(* the select without the filter on user_id *)
SelectNotificationOfAnyUser(nid, u, type) ==
  {n \in notifications : n.notification_id = nid /\ n.type = type}

(* select * from notifications where notification_id, user_id, type match *)
SelectNotification(nid, u, type) ==
  {n \in notifications : n.notification_id = nid /\ n.user_id = u /\ n.type = type}

(* the delete without the filter on notification_id *)
DeleteNotificationsOfType(nid, u, type) ==
  {n \in notifications : ~(n.user_id = u /\ n.type = type)}

(* delete from notifications where notification_id, user_id, type match *)
DeleteNotification(nid, u, type) == notifications \ SelectNotification(nid, u, type)

(* the delete without the filter on user_id *)
DeleteNotificationsOfAnyUser(u, type) == {n \in notifications : n.type # type}

(* delete from notifications where user_id, type match *)
DeleteNotificationsOfUser(u, type) ==
  {n \in notifications : ~(n.user_id = u /\ n.type = type)}

(* insert into notifications: the store assigns the next notification_id *)
InsertNotification(u, title, message) ==
  notifications \cup {[notification_id |-> next_notification_id, user_id |-> u,
                       type |-> "Ambulance", title |-> title, message |-> message,
                       is_read |-> FALSE]}

(* ---- texts: a message is a sequence of tokens <<key, value>>; a plain  *)
(* word has the key "" ---- *)
Word(w) == <<"", w>>

RequestMessage(patient, latitude, longitude) ==
  << Word("Patient"), Word(patient.full_name), Word(patient.phone),
     Word("Location:"), Word(latitude), Word(longitude),
     <<"destination", latitude, longitude>> >>

(* re.search(key=([^\s]+), message): the value of the first key=value token *)
RECURSIVE extract_meta(_, _)
extract_meta(key, message) ==
  IF message = << >> THEN None
  ELSE IF Head(message)[1] = key THEN Head(message)[2]
  ELSE extract_meta(key, Tail(message))

(* ---- helpers on calls ---- *)
FreeSlot(c) == /\ calls[c].op = "idle"
               /\ \A d \in CallIds : d < c => calls[d].op # "idle"

(* the response of a call: what the caller sees is the status code; the *)
(* handler's locals are gone                                            *)
Response(call, status) ==
  [Idle EXCEPT !.op = call.op, !.pc = "done", !.user = call.user, !.nid = call.nid,
               !.amb = call.amb, !.flag = call.flag, !.code = status]

Respond(c, status) == [calls EXCEPT ![c] = Response(calls[c], status)]

At(c, op, pc) == calls[c].op = op /\ calls[c].pc = pc

TypeOK ==
  /\ DOMAIN ambulances = AmbulanceIds
  /\ next_notification_id \in 1 .. (MaxNotifications + 1)
  /\ \A n \in notifications : n.notification_id < next_notification_id

Init ==
  /\ ambulances = [a \in AmbulanceIds |->
                     [user_id |-> IF a = 1 THEN "op1" ELSE "op2",
                      is_available |-> TRUE,
                      location |-> IF a = 1 THEN <<7, 80>> ELSE NoLocation]]
  /\ notifications = {}
  /\ next_notification_id = 1
  /\ calls = [c \in CallIds |-> Idle]
  /\ mission = [a \in AmbulanceIds |-> {}]
  /\ faults \in BOOLEAN

(* ------------------------------------------------------------------ *)
(* patient.py request_ambulance                                        *)
(* ------------------------------------------------------------------ *)

(* The number of request_ambulance calls that have not yet inserted. *)
PendingInserts ==
  Cardinality({c \in CallIds : calls[c].op = "request_ambulance" /\ calls[c].pc # "done"})

(* entry: get_patient_id, then the check that the body carries a location *)
request_ambulance(c, u, a, loc) ==
  /\ FreeSlot(c)
  /\ next_notification_id + PendingInserts <= MaxNotifications
  /\ \E ok \in QueryOutcomes :
       LET call == [Idle EXCEPT !.op = "request_ambulance", !.user = u, !.amb = a, !.loc = loc]
       IN  calls' = [calls EXCEPT ![c] =
             IF ~(ok /\ u \in DOMAIN patients) THEN Response(call, 404)
             ELSE IF loc = NoLocation THEN Response(call, 400)
             ELSE [call EXCEPT !.pc = "select_ambulance"]]
  /\ UNCHANGED <<ambulances, notifications, next_notification_id, mission, faults>>

(* request_select_ambulance without the check of is_available *)
request_select_ambulance_unchecked(c) ==
  /\ At(c, "request_ambulance", "select_ambulance")
  /\ \E ok \in QueryOutcomes, ok_patient \in QueryOutcomes :
       LET a == calls[c].amb
       IN  calls' =
             IF ~(ok /\ a \in DOMAIN ambulances) THEN Respond(c, 404)
             ELSE IF ~ok_patient THEN Respond(c, 404)
             ELSE [calls EXCEPT ![c].pc = "insert_notification",
                                ![c].owner = ambulances[a].user_id]
  /\ UNCHANGED <<ambulances, notifications, next_notification_id, mission, faults>>

(* select the ambulance, check is_available, select the patient *)
request_select_ambulance(c) ==
  /\ At(c, "request_ambulance", "select_ambulance")
  /\ \E ok \in QueryOutcomes, ok_patient \in QueryOutcomes :
       LET a == calls[c].amb
       IN  calls' =
             IF ~(ok /\ a \in DOMAIN ambulances) THEN Respond(c, 404)
             ELSE IF ~ambulances[a].is_available THEN Respond(c, 400)
             ELSE IF ~ok_patient THEN Respond(c, 404)
             ELSE [calls EXCEPT ![c].pc = "insert_notification",
                                ![c].owner = ambulances[a].user_id]
  /\ UNCHANGED <<ambulances, notifications, next_notification_id, mission, faults>>

(* request_insert_notification that also reserves the ambulance *)
request_insert_notification_reserving(c) ==
  /\ At(c, "request_ambulance", "insert_notification")
  /\ \E ok \in QueryOutcomes :
       IF ok
       THEN /\ notifications' = InsertNotification(calls[c].owner, "Ambulance Request",
                                  RequestMessage(patients[calls[c].user],
                                                 calls[c].loc[1], calls[c].loc[2]))
            /\ next_notification_id' = next_notification_id + 1
            /\ ambulances' = [ambulances EXCEPT ![calls[c].amb].is_available = FALSE]
       ELSE UNCHANGED <<notifications, next_notification_id, ambulances>>
  /\ calls' = Respond(c, 200)
  /\ UNCHANGED <<mission, faults>>

(* request_insert_notification that fails when the e-mail cannot be sent *)
request_insert_notification_email_required(c) ==
  /\ At(c, "request_ambulance", "insert_notification")
  /\ \E ok \in QueryOutcomes, ok_user \in QueryOutcomes :
       /\ IF ok
          THEN /\ notifications' = InsertNotification(calls[c].owner, "Ambulance Request",
                                     RequestMessage(patients[calls[c].user],
                                                    calls[c].loc[1], calls[c].loc[2]))
               /\ next_notification_id' = next_notification_id + 1
          ELSE UNCHANGED <<notifications, next_notification_id>>
       /\ calls' = [calls EXCEPT ![c] =
                      [Response(calls[c], IF ok_user THEN 200 ELSE 500) EXCEPT !.emailed = ok_user]]
  /\ UNCHANGED <<ambulances, mission, faults>>

(* insert the notification for the operator (the result is not read), then *)
(* select the operator's user row and, when that succeeds, hand the e-mail  *)
(* to a thread; the response is 200 in every case                           *)
request_insert_notification(c) ==
  /\ At(c, "request_ambulance", "insert_notification")
  /\ \E ok \in QueryOutcomes, ok_user \in QueryOutcomes :
       /\ IF ok
          THEN /\ notifications' = InsertNotification(calls[c].owner, "Ambulance Request",
                                     RequestMessage(patients[calls[c].user],
                                                    calls[c].loc[1], calls[c].loc[2]))
               /\ next_notification_id' = next_notification_id + 1
          ELSE UNCHANGED <<notifications, next_notification_id>>
       /\ calls' = [calls EXCEPT ![c] = [Response(calls[c], 200) EXCEPT !.emailed = ok_user]]
  /\ UNCHANGED <<ambulances, mission, faults>>

(* ------------------------------------------------------------------ *)
(* ambulance.py                                                        *)
(* ------------------------------------------------------------------ *)

(* get_ambulance_id that does not filter on the caller's user_id *)
get_ambulance_id_of_any_user(u, ok) == IF ok THEN DOMAIN ambulances ELSE {}

(* get_ambulance_id: the ambulance_id values the helper can return for *)
(* user u (data[0] of the rows of u); the empty set stands for None    *)
get_ambulance_id(u, ok) == IF ok THEN AmbulancesOfUser(u) ELSE {}

(* entry of a handler that starts with get_ambulance_id *)
Enter(c, call, first) ==
  \E ok \in QueryOutcomes :
    LET ids == get_ambulance_id(call.user, ok)
    IN  IF ids = {}
        THEN calls' = [calls EXCEPT ![c] = Response(call, 404)]
        ELSE \E a \in ids :
               calls' = [calls EXCEPT ![c] = [call EXCEPT !.pc = first, !.amb = a]]

(* the patient's outcome notification of accept_request and reject_request *)
NotifyPatient(c, title) ==
  LET patient_user_id == extract_meta("meta_patient_user_id", calls[c].row.message)
  IN  IF patient_user_id = None
      THEN UNCHANGED <<notifications, next_notification_id>>
      ELSE /\ next_notification_id <= MaxNotifications
           /\ \E ok \in QueryOutcomes :
                IF ok
                THEN /\ notifications' = InsertNotification(patient_user_id, title, << >>)
                     /\ next_notification_id' = next_notification_id + 1
                ELSE UNCHANGED <<notifications, next_notification_id>>

(* ---- accept_request ---- *)
accept_request(c, u, nid) ==
  /\ FreeSlot(c)
  /\ Enter(c, [Idle EXCEPT !.op = "accept_request", !.user = u, !.nid = nid],
           "select_notification")
  /\ UNCHANGED <<ambulances, notifications, next_notification_id, mission, faults>>

(* accept_select_notification that marks the ambulance busy before it *)
(* has found the request                                              *)
accept_select_notification_claiming(c) ==
  /\ At(c, "accept_request", "select_notification")
  /\ \E ok \in QueryOutcomes :
       LET data == SelectNotification(calls[c].nid, calls[c].user, "Ambulance")
       IN  IF ~ok \/ data = {}
           THEN calls' = Respond(c, 404)
           ELSE \E notification \in data :
                  calls' = [calls EXCEPT ![c].pc = "delete_notification",
                                         ![c].row = notification]
  /\ ambulances' = [ambulances EXCEPT ![calls[c].amb].is_available = FALSE]
  /\ UNCHANGED <<notifications, next_notification_id, mission, faults>>

accept_select_notification(c) ==
  /\ At(c, "accept_request", "select_notification")
  /\ \E ok \in QueryOutcomes :
       LET data == SelectNotification(calls[c].nid, calls[c].user, "Ambulance")
       IN  IF ~ok \/ data = {}
           THEN calls' = Respond(c, 404)
           ELSE \E notification \in data :
                  calls' = [calls EXCEPT ![c].pc = "delete_notification",
                                         ![c].row = notification]
  /\ UNCHANGED <<ambulances, notifications, next_notification_id, mission, faults>>

(* the delete's result is not looked at *)
accept_delete_notification(c) ==
  /\ At(c, "accept_request", "delete_notification")
  /\ \E ok \in QueryOutcomes :
       IF ok
       THEN /\ notifications' = DeleteNotification(calls[c].nid, calls[c].user, "Ambulance")
            /\ mission' = IF notifications' # notifications
                          THEN [mission EXCEPT ![calls[c].amb] = @ \cup {calls[c].nid}]
                          ELSE mission
       ELSE UNCHANGED <<notifications, mission, faults>>
  /\ calls' = [calls EXCEPT ![c].pc = "update_ambulance"]
  /\ UNCHANGED <<ambulances, next_notification_id, faults>>

(* the update's result is not looked at *)
accept_update_ambulance(c) ==
  /\ At(c, "accept_request", "update_ambulance")
  /\ \E ok \in QueryOutcomes :
       ambulances' = IF ok /\ calls[c].amb \in DOMAIN ambulances
                     THEN [ambulances EXCEPT ![calls[c].amb].is_available = FALSE]
                     ELSE ambulances
  /\ calls' = [calls EXCEPT ![c].pc = "notify_patient"]
  /\ UNCHANGED <<notifications, next_notification_id, mission, faults>>

accept_notify_patient(c) ==
  /\ At(c, "accept_request", "notify_patient")
  /\ NotifyPatient(c, "Ambulance Request Accepted")
  /\ calls' = Respond(c, 200)
  /\ UNCHANGED <<ambulances, mission, faults>>

(* ---- reject_request: no get_ambulance_id; entry selects the request ---- *)
reject_request(c, u, nid) ==
  /\ FreeSlot(c)
  /\ \E ok \in QueryOutcomes :
       LET call == [Idle EXCEPT !.op = "reject_request", !.user = u, !.nid = nid]
           data == SelectNotification(nid, u, "Ambulance")
       IN  IF ~ok \/ data = {}
           THEN calls' = [calls EXCEPT ![c] = Response(call, 404)]
           ELSE \E notification \in data :
                  calls' = [calls EXCEPT ![c] = [call EXCEPT !.pc = "delete_notification",
                                                             !.row = notification]]
  /\ UNCHANGED <<ambulances, notifications, next_notification_id, mission, faults>>

reject_delete_notification(c) ==
  /\ At(c, "reject_request", "delete_notification")
  /\ \E ok \in QueryOutcomes :
       notifications' = IF ok
                        THEN DeleteNotification(calls[c].nid, calls[c].user, "Ambulance")
                        ELSE notifications
  /\ calls' = [calls EXCEPT ![c].pc = "notify_patient"]
  /\ UNCHANGED <<ambulances, next_notification_id, mission, faults>>

reject_notify_patient(c) ==
  /\ At(c, "reject_request", "notify_patient")
  /\ NotifyPatient(c, "Ambulance Request Rejected")
  /\ calls' = Respond(c, 200)
  /\ UNCHANGED <<ambulances, mission, faults>>

(* ---- complete_mission ---- *)
complete_mission(c, u) ==
  /\ FreeSlot(c)
  /\ Enter(c, [Idle EXCEPT !.op = "complete_mission", !.user = u], "update_ambulance")
  /\ UNCHANGED <<ambulances, notifications, next_notification_id, mission, faults>>

(* complete_update_ambulance without the check of the update's result *)
complete_update_ambulance_unchecked(c) ==
  /\ At(c, "complete_mission", "update_ambulance")
  /\ \E ok \in QueryOutcomes :
       IF ok
       THEN /\ ambulances' = [ambulances EXCEPT ![calls[c].amb].is_available = TRUE]
            /\ mission' = [mission EXCEPT ![calls[c].amb] = {}]
       ELSE UNCHANGED <<ambulances, mission>>
  /\ calls' = Respond(c, 200)
  /\ UNCHANGED <<notifications, next_notification_id, faults>>

(* complete_update_ambulance that also deletes the caller's requests *)
complete_update_ambulance_clearing(c) ==
  /\ At(c, "complete_mission", "update_ambulance")
  /\ \E ok \in QueryOutcomes :
       IF ok
       THEN /\ ambulances' = [ambulances EXCEPT ![calls[c].amb].is_available = TRUE]
            /\ mission' = [mission EXCEPT ![calls[c].amb] = {}]
            /\ notifications' = DeleteNotificationsOfUser(calls[c].user, "Ambulance")
            /\ calls' = Respond(c, 200)
       ELSE /\ UNCHANGED <<ambulances, mission, notifications>>
            /\ calls' = Respond(c, 500)
  /\ UNCHANGED <<next_notification_id, faults>>

(* update ambulances set is_available = True; 500 when the update failed *)
complete_update_ambulance(c) ==
  /\ At(c, "complete_mission", "update_ambulance")
  /\ \E ok \in QueryOutcomes :
       IF ok
       THEN /\ ambulances' = [ambulances EXCEPT ![calls[c].amb].is_available = TRUE]
            /\ mission' = [mission EXCEPT ![calls[c].amb] = {}]
            /\ calls' = Respond(c, 200)
       ELSE /\ UNCHANGED <<ambulances, mission>>
            /\ calls' = Respond(c, 500)
  /\ UNCHANGED <<notifications, next_notification_id, faults>>

(* ---- update_availability ---- *)
update_availability(c, u, is_available) ==
  /\ FreeSlot(c)
  /\ Enter(c, [Idle EXCEPT !.op = "update_availability", !.user = u, !.flag = is_available],
           "update_ambulance")
  /\ UNCHANGED <<ambulances, notifications, next_notification_id, mission, faults>>

availability_update_ambulance(c) ==
  /\ At(c, "update_availability", "update_ambulance")
  /\ \E ok \in QueryOutcomes :
       IF ok
       THEN /\ ambulances' = [ambulances EXCEPT ![calls[c].amb].is_available = calls[c].flag]
            /\ mission' = IF calls[c].flag THEN [mission EXCEPT ![calls[c].amb] = {}]
                          ELSE mission
            /\ calls' = IF calls[c].flag
                        THEN [calls EXCEPT ![c].pc = "clear_requests"]
                        ELSE Respond(c, 200)
       ELSE /\ UNCHANGED <<ambulances, mission>>
            /\ calls' = Respond(c, 500)
  /\ UNCHANGED <<notifications, next_notification_id, faults>>

(* availability_clear_requests that does not report the count *)
availability_clear_requests_uncounted(c) ==
  /\ At(c, "update_availability", "clear_requests")
  /\ \E ok \in QueryOutcomes :
       notifications' = IF ok THEN DeleteNotificationsOfUser(calls[c].user, "Ambulance")
                        ELSE notifications
  /\ calls' = Respond(c, 200)
  /\ UNCHANGED <<ambulances, next_notification_id, mission, faults>>

(* delete every notification of type Ambulance addressed to the caller *)
availability_clear_requests(c) ==
  /\ At(c, "update_availability", "clear_requests")
  /\ \E ok \in QueryOutcomes :
       notifications' = IF ok THEN DeleteNotificationsOfUser(calls[c].user, "Ambulance")
                        ELSE notifications
  /\ calls' = [calls EXCEPT ![c] =
                 [Response(calls[c], 200) EXCEPT
                    !.cleared = Cardinality(notifications) - Cardinality(notifications')]]
  /\ UNCHANGED <<ambulances, next_notification_id, mission, faults>>

(* the response has been delivered: the slot is free again *)
Return(c) ==
  /\ calls[c].pc = "done"
  /\ calls' = [d \in CallIds |->
                 IF d < c THEN calls[d]
                 ELSE IF d + 1 \in CallIds THEN calls[d + 1]
                 ELSE Idle]
  /\ UNCHANGED <<ambulances, notifications, next_notification_id, mission, faults>>

Next ==
  \E c \in CallIds :
    \/ \E u \in Users, a \in AmbulanceArgs, loc \in PatientLocations \cup {NoLocation} :
         request_ambulance(c, u, a, loc)
    \/ request_select_ambulance(c)
    \/ request_insert_notification(c)
    \/ \E u \in Users, nid \in NotificationArgs : accept_request(c, u, nid)
    \/ accept_select_notification(c)
    \/ accept_delete_notification(c)
    \/ accept_update_ambulance(c)
    \/ accept_notify_patient(c)
    \/ \E u \in Users, nid \in NotificationArgs : reject_request(c, u, nid)
    \/ reject_delete_notification(c)
    \/ reject_notify_patient(c)
    \/ \E u \in Users : complete_mission(c, u)
    \/ complete_update_ambulance(c)
    \/ \E u \in Users, is_available \in BOOLEAN : update_availability(c, u, is_available)
    \/ availability_update_ambulance(c)
    \/ availability_clear_requests(c)
    \/ Return(c)

Spec == Init /\ [][Next]_vars

(* the runs in which no execute_query call fails *)
InitReliable == Init /\ ~faults

SpecReliable == InitReliable /\ [][Next]_vars

(* ------------------------------------------------------------------ *)
(* patient.py get_nearby_ambulances                                    *)
(* Latitudes and longitudes are in millionths of a degree, distances   *)
(* and radius_km in metres, the reported distance_km in hundredths of  *)
(* a kilometre and estimated_arrival in minutes.                       *)
(* ------------------------------------------------------------------ *)

(* the ambulances of the search, the meridians they stand on and their *)
(* latitudes: on the equator, 5003 m north of it, 9997 m north and     *)
(* south of it, 9999 m and 11999 m north of it                         *)
FleetIds == 1 .. MaxFleet
Meridians == {0, 79861200}
AmbulanceLatitudes == {-89910, 0, 45000, 89910, 89932, 107918}
FleetLocations(meridian) == {NoLocation} \cup {<<lat, meridian>> : lat \in AmbulanceLatitudes}

(* the bodies a caller posts: none, or latitude, longitude, radius_km, *)
(* limit, all in range or one of them out of range                     *)
NoData == << >>
InRangeData == {<<0, meridian, 9999, limit>> : meridian \in Meridians, limit \in 1 .. MaxFleet}
OutOfRangeData ==
  {<<90000001, 0, 9999, 1>>, <<-90000001, 0, 9999, 1>>,
   <<0, 180000001, 9999, 1>>, <<0, -180000001, 9999, 1>>,
   <<0, 0, 0, 1>>, <<0, 0, 100001, 1>>, <<0, 0, 9999, 0>>, <<0, 0, 9999, 51>>}
NearbyData == {NoData} \cup InRangeData \cup OutOfRangeData

(* the constraints of the pydantic model: construction raises unless they hold *)
NearbyAmbulanceRequest(data) ==
  /\ -90000000 <= data[1] /\ data[1] <= 90000000
  /\ -180000000 <= data[2] /\ data[2] <= 180000000
  /\ 0 < data[3] /\ data[3] <= 100000
  /\ 0 < data[4] /\ data[4] <= 50

(* the orders in which the store can return the rows of the set S *)
Orderings(S) ==
  {rows \in [1 .. Cardinality(S) -> S] :
     \A i, j \in 1 .. Cardinality(S) : rows[i] = rows[j] => i = j}

(* the select without the filter on is_available *)
AmbulancesOfAnyAvailability == DOMAIN ambulances

(* select * from ambulances where is_available = True *)
AvailableAmbulances == {a \in DOMAIN ambulances : ambulances[a].is_available}

(* ambulance['current_latitude'] and ambulance['current_longitude']: None *)
(* and 0 are both false                                                   *)
Located(ambulance) ==
  /\ ambulance.location # NoLocation
  /\ ambulance.location[1] # 0
  /\ ambulance.location[2] # 0

Abs(x) == IF x < 0 THEN -x ELSE x

(* The Haversine formula between two points of one meridian: with dlon = 0 *)
(* a = sin(dlat/2)**2 and c = |dlat|, so the distance is 6371 km times     *)
(* |dlat| in radians, which is 0.11119 m for a millionth of a degree.      *)
haversine(lat1, lon1, lat2, lon2) == (Abs(lat2 - lat1) * 11119) \div 100000

(* round(x, n) on a quotient num / den: to the nearest, a half to the even *)
round(num, den) ==
  LET q == num \div den
      r == num % den
  IN  IF 2 * r > den \/ (2 * r = den /\ q % 2 = 1) THEN q + 1 ELSE q

(* the radius test with the bound left out *)
within_radius_exclusive(distance, radius_km) == distance < radius_km

(* distance_km <= location_request.radius_km *)
within_radius(distance, radius_km) == distance <= radius_km

(* the loop over the rows: the located ambulances within the radius, in *)
(* the order of the rows                                                *)
RECURSIVE nearby_ambulances(_, _)
nearby_ambulances(rows, data) ==
  IF rows = << >> THEN << >>
  ELSE LET ambulance == ambulances[Head(rows)]
           rest == nearby_ambulances(Tail(rows), data)
       IN  IF ~Located(ambulance) THEN rest
           ELSE LET distance == haversine(data[1], data[2],
                                          ambulance.location[1], ambulance.location[2])
                IN  IF within_radius(distance, data[3])
                    THEN <<[ambulance_id |-> Head(rows),
                            distance_km |-> round(distance, 10),
                            estimated_arrival |-> round(distance * 60, 40 * 1000)]>> \o rest
                    ELSE rest

(* insort that puts x before the entries of the same distance_km *)
RECURSIVE insort_before_ties(_, _)
insort_before_ties(x, sorted) ==
  IF sorted = << >> THEN <<x>>
  ELSE IF Head(sorted).distance_km < x.distance_km
       THEN <<Head(sorted)>> \o insort_before_ties(x, Tail(sorted))
       ELSE <<x>> \o sorted

(* list.sort is stable: x goes behind the entries whose key is not greater *)
RECURSIVE insort(_, _)
insort(x, sorted) ==
  IF sorted = << >> THEN <<x>>
  ELSE IF Head(sorted).distance_km <= x.distance_km
       THEN <<Head(sorted)>> \o insort(x, Tail(sorted))
       ELSE <<x>> \o sorted

(* nearby_ambulances.sort(key=lambda x: x['distance_km']) *)
RECURSIVE sort(_)
sort(list) ==
  IF list = << >> THEN << >>
  ELSE insort(list[Len(list)], sort(SubSeq(list, 1, Len(list) - 1)))

(* list[:limit] *)
slice(list, limit) == SubSeq(list, 1, IF limit < Len(list) THEN limit ELSE Len(list))

(* The whole handler is one step: it issues one query and writes nothing. *)
(* The search is on the meridian of the fleet.                            *)
get_nearby_ambulances(c, u, data) ==
  /\ FreeSlot(c)
  /\ \A a \in DOMAIN ambulances :
       (data # NoData /\ ambulances[a].location # NoLocation /\ NearbyAmbulanceRequest(data))
       => ambulances[a].location[2] = data[2]
  /\ \E ok \in QueryOutcomes, rows \in Orderings(AvailableAmbulances) :
       LET call == [Idle EXCEPT !.op = "get_nearby_ambulances", !.pc = "done",
                                !.user = u, !.data = data]
       IN  calls' = [calls EXCEPT ![c] =
             IF data = NoData THEN [call EXCEPT !.code = 400]
             ELSE IF ~NearbyAmbulanceRequest(data) THEN [call EXCEPT !.code = 500]
             ELSE IF ~ok THEN [call EXCEPT !.code = 500]
             ELSE [call EXCEPT !.code = 200, !.rows = rows,
                               !.result = slice(sort(nearby_ambulances(rows, data)), data[4])]]
  /\ UNCHANGED <<ambulances, notifications, next_notification_id, mission, faults>>

(* any fleet on one meridian, and no call yet *)
InitNearby ==
  /\ \E meridian \in Meridians :
       ambulances \in [FleetIds -> {[user_id |-> "op1", is_available |-> b, location |-> l] :
                                      b \in BOOLEAN, l \in FleetLocations(meridian)}]
  /\ notifications = {}
  /\ next_notification_id = 1
  /\ calls = [c \in CallIds |-> Idle]
  /\ mission = [a \in AmbulanceIds |-> {}]
  /\ faults \in BOOLEAN

(* searches, one at a time: the handler does not read the caller's identity *)
NextNearby ==
  \E c \in CallIds :
    \/ \E u \in PatientUsers, data \in NearbyData :
         /\ \A d \in CallIds : calls[d].op = "idle"
         /\ get_nearby_ambulances(c, u, data)
    \/ Return(c)

SpecNearby == InitNearby /\ [][NextNearby]_vars

(* ------------------------------------------------------------------ *)
(* request_ambulance with numeric coordinates, in millionths of a       *)
(* degree, in range and out of range                                    *)
(* ------------------------------------------------------------------ *)
RequestLocations ==
  {<<6927100, 79861200>>, <<90000001, 79861200>>, <<6927100, -180000001>>}

NextRequests ==
  \E c \in CallIds :
    \/ \E u \in Users, a \in AmbulanceArgs, loc \in RequestLocations \cup {NoLocation} :
         request_ambulance(c, u, a, loc)
    \/ request_select_ambulance(c)
    \/ request_insert_notification(c)
    \/ Return(c)

SpecRequests == Init /\ [][NextRequests]_vars

(* ------------------------------------------------------------------ *)
(* ambulance.py register_ambulance: here `ambulances` is the sequence   *)
(* of the rows inserted so far, the index being the ambulance_id        *)
(* ------------------------------------------------------------------ *)
AmbulanceNumbers == {"AMB-1", "AMB-2"}

(* select * from ambulances where ambulance_number = number *)
AmbulancesOfNumber(number) ==
  {a \in DOMAIN ambulances : ambulances[a].ambulance_number = number}

(* entry: the select by user_id, then the check of the required fields; *)
(* number is None when the body lacks a required field                  *)
register_ambulance(c, u, number) ==
  /\ FreeSlot(c)
  /\ \E ok \in QueryOutcomes :
       LET call == [Idle EXCEPT !.op = "register_ambulance", !.user = u, !.number = number]
       IN  calls' = [calls EXCEPT ![c] =
             IF ok /\ AmbulancesOfUser(u) # {} THEN Response(call, 400)
             ELSE IF number = None THEN Response(call, 400)
             ELSE [call EXCEPT !.pc = "check_number"]]
  /\ UNCHANGED <<ambulances, notifications, next_notification_id, mission, faults>>

(* the select by ambulance_number *)
register_check_number(c) ==
  /\ At(c, "register_ambulance", "check_number")
  /\ \E ok \in QueryOutcomes :
       calls' = IF ok /\ AmbulancesOfNumber(calls[c].number) # {}
                THEN Respond(c, 409)
                ELSE [calls EXCEPT ![c].pc = "insert_ambulance"]
  /\ UNCHANGED <<ambulances, notifications, next_notification_id, mission, faults>>

(* the insert of the ambulance row *)
register_insert_ambulance(c) ==
  /\ At(c, "register_ambulance", "insert_ambulance")
  /\ Len(ambulances) < MaxRegistered
  /\ \E ok \in QueryOutcomes :
       IF ok
       THEN /\ ambulances' = Append(ambulances,
                               [user_id |-> calls[c].user, is_available |-> TRUE,
                                location |-> NoLocation,
                                ambulance_number |-> calls[c].number])
            /\ calls' = Respond(c, 201)
       ELSE /\ UNCHANGED ambulances
            /\ calls' = Respond(c, 500)
  /\ UNCHANGED <<notifications, next_notification_id, mission, faults>>

(* no ambulance is registered yet, and no query fails *)
InitRegister ==
  /\ ambulances = << >>
  /\ notifications = {}
  /\ next_notification_id = 1
  /\ calls = [c \in CallIds |-> Idle]
  /\ mission = [a \in AmbulanceIds |-> {}]
  /\ faults = FALSE

NextRegister ==
  \E c \in CallIds :
    \/ \E u \in Operators, number \in AmbulanceNumbers \cup {None} :
         register_ambulance(c, u, number)
    \/ register_check_number(c)
    \/ register_insert_ambulance(c)
    \/ Return(c)

SpecRegister == InitRegister /\ [][NextRegister]_vars

(* ------------------------------------------------------------------ *)
(* The other writers of the two tables: ambulance.py update_location    *)
(* and mark_notification_read, admin.py admin_update_ambulance          *)
(* ------------------------------------------------------------------ *)
Admins == {"admin1"}

(* the location an operator reports *)
LocationArgs == {<<7, 80>>}

(* the is_available entry of a body: absent, true or false *)
AvailabilityArgs == {<< >>, <<TRUE>>, <<FALSE>>}

(* the bodies of a search next to the dispatch: none, one in range on the *)
(* meridian of the fleet, one out of range                                *)
SearchArgs == {NoData, <<0, 80, 9999, 1>>, <<90000001, 80, 9999, 1>>}

(* entry of update_location: get_ambulance_id, then the check that the  *)
(* body carries latitude and longitude                                  *)
update_location(c, u, loc, avail) ==
  /\ FreeSlot(c)
  /\ \E ok \in QueryOutcomes :
       LET call == [Idle EXCEPT !.op = "update_location", !.user = u]
           ids  == get_ambulance_id(u, ok)
       IN  IF ids = {} THEN calls' = [calls EXCEPT ![c] = Response(call, 404)]
           ELSE IF loc = NoLocation THEN calls' = [calls EXCEPT ![c] = Response(call, 400)]
           ELSE \E a \in ids :
                  calls' = [calls EXCEPT ![c] =
                              [call EXCEPT !.pc = "update_ambulance", !.amb = a,
                                           !.loc = loc, !.avail = avail]]
  /\ UNCHANGED <<ambulances, notifications, next_notification_id, mission, faults>>

(* update_data that takes a missing is_available for false *)
UpdatedAmbulanceDefaulting(a, loc, avail) ==
  [ambulances[a] EXCEPT
     !.location = IF loc = NoLocation THEN @ ELSE loc,
     !.is_available = IF avail = << >> THEN FALSE ELSE avail[1]]

(* the row of ambulance a after an update with update_data *)
UpdatedAmbulance(a, loc, avail) ==
  [ambulances[a] EXCEPT
     !.location = IF loc = NoLocation THEN @ ELSE loc,
     !.is_available = IF avail = << >> THEN @ ELSE avail[1]]

(* update ambulances set current_latitude, current_longitude and, when the *)
(* body carries it, is_available                                           *)
location_update_ambulance(c) ==
  /\ At(c, "update_location", "update_ambulance")
  /\ \E ok \in QueryOutcomes :
       IF ok
       THEN /\ ambulances' = [ambulances EXCEPT
                                ![calls[c].amb] = UpdatedAmbulance(calls[c].amb, calls[c].loc,
                                                                   calls[c].avail)]
            /\ mission' = IF calls[c].avail = <<TRUE>>
                          THEN [mission EXCEPT ![calls[c].amb] = {}] ELSE mission
            /\ calls' = Respond(c, 200)
       ELSE /\ UNCHANGED <<ambulances, mission>>
            /\ calls' = Respond(c, 500)
  /\ UNCHANGED <<notifications, next_notification_id, faults>>

(* update notifications set is_read = True where notification_id, user_id match *)
mark_notification_read(c, u, nid) ==
  /\ FreeSlot(c)
  /\ \E ok \in QueryOutcomes :
       LET call == [Idle EXCEPT !.op = "mark_notification_read", !.user = u, !.nid = nid]
       IN  IF ok
           THEN /\ notifications' =
                     {IF n.notification_id = nid /\ n.user_id = u
                      THEN [n EXCEPT !.is_read = TRUE] ELSE n : n \in notifications}
                /\ calls' = [calls EXCEPT ![c] = Response(call, 200)]
           ELSE /\ UNCHANGED notifications
                /\ calls' = [calls EXCEPT ![c] = Response(call, 500)]
  /\ UNCHANGED <<ambulances, next_notification_id, mission, faults>>

(* entry of admin_update_ambulance: _require_admin, then the select of  *)
(* the ambulance; of the keys of the body is_available is modelled      *)
admin_update_ambulance(c, u, a, avail) ==
  /\ FreeSlot(c)
  /\ \E ok_user \in QueryOutcomes, ok \in QueryOutcomes :
       LET call == [Idle EXCEPT !.op = "admin_update_ambulance", !.user = u, !.amb = a]
       IN  calls' = [calls EXCEPT ![c] =
             IF ~ok_user THEN Response(call, 404)
             ELSE IF u \notin Admins THEN Response(call, 403)
             ELSE IF ~(ok /\ a \in DOMAIN ambulances) THEN Response(call, 404)
             ELSE IF avail = << >> THEN Response(call, 200)
             ELSE [call EXCEPT !.pc = "update_ambulance", !.avail = avail]]
  /\ UNCHANGED <<ambulances, notifications, next_notification_id, mission, faults>>

(* the update of the ambulance row by the administrator *)
admin_update(c) ==
  /\ At(c, "admin_update_ambulance", "update_ambulance")
  /\ \E ok \in QueryOutcomes :
       IF ok
       THEN /\ ambulances' = [ambulances EXCEPT
                                ![calls[c].amb] = UpdatedAmbulance(calls[c].amb, NoLocation,
                                                                   calls[c].avail)]
            /\ mission' = IF calls[c].avail = <<TRUE>>
                          THEN [mission EXCEPT ![calls[c].amb] = {}] ELSE mission
            /\ calls' = Respond(c, 200)
       ELSE /\ UNCHANGED <<ambulances, mission>>
            /\ calls' = Respond(c, 500)
  /\ UNCHANGED <<notifications, next_notification_id, faults>>

(* every handler that reads or writes the two tables, called by a user *)
(* of the role its route is for                                         *)
NextBackend ==
  \E c \in CallIds :
    \/ \E u \in PatientUsers, a \in AmbulanceArgs, loc \in PatientLocations \cup {NoLocation} :
         request_ambulance(c, u, a, loc)
    \/ request_select_ambulance(c)
    \/ request_insert_notification(c)
    \/ \E u \in Operators, nid \in NotificationArgs : accept_request(c, u, nid)
    \/ accept_select_notification(c)
    \/ accept_delete_notification(c)
    \/ accept_update_ambulance(c)
    \/ accept_notify_patient(c)
    \/ \E u \in Operators, nid \in NotificationArgs : reject_request(c, u, nid)
    \/ reject_delete_notification(c)
    \/ reject_notify_patient(c)
    \/ \E u \in Operators : complete_mission(c, u)
    \/ complete_update_ambulance(c)
    \/ \E u \in Operators, is_available \in BOOLEAN : update_availability(c, u, is_available)
    \/ availability_update_ambulance(c)
    \/ availability_clear_requests(c)
    \/ \E u \in Operators, loc \in LocationArgs \cup {NoLocation}, avail \in AvailabilityArgs :
         update_location(c, u, loc, avail)
    \/ location_update_ambulance(c)
    \/ \E u \in Operators, nid \in NotificationArgs : mark_notification_read(c, u, nid)
    \/ \E u \in Admins \cup PatientUsers, a \in AmbulanceArgs, avail \in AvailabilityArgs :
         admin_update_ambulance(c, u, a, avail)
    \/ admin_update(c)
    \/ \E u \in PatientUsers, data \in SearchArgs : get_nearby_ambulances(c, u, data)
    \/ Return(c)

SpecBackend == InitReliable /\ [][NextBackend]_vars

(* ------------------------------------------------------------------ *)
(* Properties                                                          *)
(* ------------------------------------------------------------------ *)

Done(c, op) == calls[c].op = op /\ calls[c].pc = "done"

Succeeded(c, op) == Done(c, op) /\ calls[c].code = 200

(* C1: of two accept calls on the same Pending request that run           *)
(* concurrently, exactly one returns success: two accept calls of one     *)
(* operator on one request never both return 200. Checked in the runs     *)
(* without storage failures, where the only way to two successes is the   *)
(* interleaving of the two calls' reads and writes.                       *)
C1_OneAcceptSucceeds ==
  \A c, d \in CallIds :
    (c # d /\ Succeeded(c, "accept_request") /\ Succeeded(d, "accept_request")
       /\ calls[c].user = calls[d].user)
    => calls[c].nid # calls[d].nid

(* C2: in every reachable state an ambulance whose is_available is true   *)
(* has no request that an accept has resolved (removed) for a mission not *)
(* yet completed.                                                         *)
C2_AvailableHasNoAccepted ==
  \A a \in AmbulanceIds : ambulances[a].is_available => mission[a] = {}

(* C3: at most one request addressed to an ambulance is Accepted at a     *)
(* time: between two reports of availability at most one request is       *)
(* resolved by an accept of that ambulance.                               *)
C3_AtMostOneAccepted ==
  \A a \in AmbulanceIds : Cardinality(mission[a]) <= 1

(* C4: a request is resolved exactly once: an accept and a decline of the *)
(* same request never both return success.                                *)
C4_ResolvedOnce ==
  \A c, d \in CallIds :
    (Succeeded(c, "accept_request") /\ Succeeded(d, "reject_request")
       /\ calls[c].user = calls[d].user)
    => calls[c].nid # calls[d].nid

(* C5: a second accept of a request, issued after the first accept of it  *)
(* has returned success, returns Conflict (409) and changes neither the   *)
(* notifications nor the ambulances.                                      *)
C5_SecondAcceptConflicts ==
  [][\A c, d \in CallIds :
       (/\ Succeeded(c, "accept_request")
        /\ calls[d].nid = calls[c].nid /\ calls[d].user = calls[c].user
        /\ accept_select_notification(d))
       => (/\ calls'[d].pc = "done" /\ calls'[d].code = 409
           /\ notifications' = notifications /\ ambulances' = ambulances)]_vars

(* C6: a decline that returns changes no ambulance, and when it returns   *)
(* success the request is resolved: it is no longer in the store.         *)
C6_DeclineResolves ==
  [][\A c \in CallIds :
       reject_notify_patient(c)
       => (/\ ambulances' = ambulances
           /\ \A n \in notifications' : n.notification_id # calls[c].nid)]_vars

(* the steps of a request_ambulance call *)
RequestStep(c) ==
  \/ \E u \in Users, a \in AmbulanceArgs, loc \in PatientLocations \cup {NoLocation} :
       request_ambulance(c, u, a, loc)
  \/ request_select_ambulance(c)
  \/ request_insert_notification(c)

(* the call in slot c reads an ambulance whose is_available is false *)
ReadsUnavailable(c) ==
  /\ calls[c].amb \in DOMAIN ambulances
  /\ ~ambulances[calls[c].amb].is_available
  /\ request_select_ambulance(c)

C8_RequestLeavesAmbulances ==
  [][\A c \in CallIds : RequestStep(c) => ambulances' = ambulances]_vars

(* a request has been created and has succeeded *)
C8_Witness ==
  \E c \in CallIds :
    /\ Succeeded(c, "request_ambulance")
    /\ \E n \in notifications : n.user_id = ambulances[calls[c].amb].user_id

(* C9: whenever request_ambulance returns success, a new request addressed *)
(* to the ambulance's operator has been stored.                            *)
C9_SuccessMeansStored ==
  [][\A c \in CallIds :
       (request_insert_notification(c) /\ calls'[c].code = 200)
       => \E n \in notifications' \ notifications :
            /\ n.user_id = calls[c].owner
            /\ n.title = "Ambulance Request"]_vars

(* request nid is pending and addressed to an operator other than u *)
PendingForOther(u, nid) ==
  \E n \in notifications :
    /\ n.notification_id = nid /\ n.title = "Ambulance Request" /\ n.user_id # u

(* C10: an accept or a decline by a user who is not the operator the      *)
(* request is addressed to fails with 404 and changes neither the         *)
(* notifications nor the ambulances.                                      *)
C10_OwnershipRequired ==
  [][\A c \in CallIds :
       /\ \A u \in Users, nid \in NotificationArgs :
            (PendingForOther(u, nid) /\ (accept_request(c, u, nid) \/ reject_request(c, u, nid)))
            => (/\ calls'[c].pc = "done" => calls'[c].code = 404
                /\ calls'[c].op = "reject_request" => calls'[c].pc = "done"
                /\ notifications' = notifications /\ ambulances' = ambulances)
       /\ (PendingForOther(calls[c].user, calls[c].nid) /\ accept_select_notification(c))
            => (/\ calls'[c].pc = "done" /\ calls'[c].code = 404
                /\ notifications' = notifications /\ ambulances' = ambulances)]_vars

(* another operator's accept or decline of a pending request was refused *)
C10_Witness ==
  \E c \in CallIds :
    /\ calls[c].op \in {"accept_request", "reject_request"}
    /\ calls[c].pc = "done" /\ calls[c].code = 404
    /\ calls[c].user \in Operators
    /\ PendingForOther(calls[c].user, calls[c].nid)

(* a request addressed to user u is pending in the set ns of notifications *)
PendingFor(u, ns) ==
  \E n \in ns : n.user_id = u /\ n.type = "Ambulance" /\ n.title = "Ambulance Request"

(* C11: whenever complete_mission returns success, the step that returns  *)
(* has left is_available of the caller's ambulance true, whatever it was  *)
(* before and whether or not a request had been accepted.                 *)
C11_CompleteSetsAvailable ==
  [][\A c \in CallIds :
       (complete_update_ambulance(c) /\ calls'[c].code = 200)
       => ambulances'[calls[c].amb].is_available]_vars

(* complete_mission has succeeded after an accept for the same ambulance  *)
(* had succeeded, and the ambulance is available                          *)
C11_Witness ==
  \E c, d \in CallIds :
    /\ d < c /\ ~faults
    /\ Succeeded(d, "accept_request") /\ Succeeded(c, "complete_mission")
    /\ calls[c].amb = calls[d].amb
    /\ ambulances[calls[c].amb].is_available

(* C12 as stated: after complete_mission succeeds no pending request      *)
(* addressed to the caller's ambulance remains.                           *)
C12_CompleteDiscardsPending ==
  [][\A c \in CallIds :
       (complete_update_ambulance(c) /\ calls'[c].code = 200)
       => ~PendingFor(calls[c].user, notifications')]_vars

(* C12 amended: no step of complete_mission deletes or changes a          *)
(* notification: every request pending before the call is pending after.  *)
C12_CompleteKeepsRequests ==
  [][\A c \in CallIds :
       ((\E u \in Users : complete_mission(c, u)) \/ complete_update_ambulance(c))
       => notifications' = notifications]_vars

(* complete_mission has succeeded and a request addressed to the caller   *)
(* is still pending, in a run where no later call can have created it     *)
C12_Witness ==
  \E c \in CallIds :
    /\ Succeeded(c, "complete_mission")
    /\ PendingFor(calls[c].user, notifications)
    /\ next_notification_id = 2
    /\ \A d \in CallIds : d > c => calls[d].op = "idle"

DistanceFrom(c, a) ==
  haversine(calls[c].data[1], calls[c].data[2],
            ambulances[a].location[1], ambulances[a].location[2])

(* the ambulances of the result *)
Returned(c) == {calls[c].result[i].ambulance_id : i \in DOMAIN calls[c].result}

(* the available ambulances with a location set that lie within the radius *)
Qualifying(c) ==
  {a \in DOMAIN ambulances :
     /\ ambulances[a].is_available
     /\ ambulances[a].location # NoLocation
     /\ DistanceFrom(c, a) <= calls[c].data[3]}

(* those of them whose coordinates the handler reads as set *)
Candidates(c) == {a \in Qualifying(c) : Located(ambulances[a])}

(* C14: a successful search returns no ambulance that is unavailable in   *)
(* the table it read and none whose distance from the origin exceeds the  *)
(* radius; the bound is inclusive: an ambulance the handler measures at   *)
(* exactly the radius is returned unless the limit cuts the list.         *)
C14_NearbyFilters ==
  \A c \in CallIds :
    Succeeded(c, "get_nearby_ambulances")
    => /\ Returned(c) \subseteq Qualifying(c)
       /\ \A a \in Candidates(c) :
            (DistanceFrom(c, a) = calls[c].data[3]
               /\ Cardinality(Candidates(c)) <= calls[c].data[4])
            => a \in Returned(c)

(* a search returned an ambulance at exactly the radius and left out an   *)
(* unavailable one within the radius and an available one beyond it       *)
C14_Witness ==
  \E c \in CallIds :
    /\ Succeeded(c, "get_nearby_ambulances")
    /\ \E a \in Returned(c) : DistanceFrom(c, a) = calls[c].data[3]
    /\ \E a \in DOMAIN ambulances :
         /\ ~ambulances[a].is_available /\ Located(ambulances[a])
         /\ DistanceFrom(c, a) <= calls[c].data[3]
    /\ \E a \in DOMAIN ambulances :
         /\ ambulances[a].is_available /\ Located(ambulances[a])
         /\ DistanceFrom(c, a) > calls[c].data[3]

(* C15: a successful search is complete: when the available ambulances    *)
(* with a location set within the radius are no more than the limit, all  *)
(* of them are returned, wherever in the valid ranges they stand.         *)
C15_NearbyIsComplete ==
  \A c \in CallIds :
    (Succeeded(c, "get_nearby_ambulances")
       /\ Cardinality(Qualifying(c)) <= calls[c].data[4])
    => Qualifying(c) \subseteq Returned(c)

(* the place of ambulance a in the rows the store returned *)
Position(rows, a) == CHOOSE k \in DOMAIN rows : rows[k] = a

(* C16 as stated: the result is ordered by non-decreasing distance, and   *)
(* entries of equal distance by ascending ambulance_id.                   *)
C16_TiesByAmbulanceId ==
  \A c \in CallIds :
    Succeeded(c, "get_nearby_ambulances")
    => \A i, j \in DOMAIN calls[c].result :
         i < j => \/ calls[c].result[i].distance_km < calls[c].result[j].distance_km
                  \/ /\ calls[c].result[i].distance_km = calls[c].result[j].distance_km
                     /\ calls[c].result[i].ambulance_id < calls[c].result[j].ambulance_id

(* C16 amended: the result is ordered by non-decreasing distance_km, the  *)
(* distance rounded to 0.01 km, and entries of equal distance_km are in   *)
(* the order in which the store returned their rows.                      *)
C16_TiesInStoreOrder ==
  \A c \in CallIds :
    Succeeded(c, "get_nearby_ambulances")
    => \A i, j \in DOMAIN calls[c].result :
         i < j => \/ calls[c].result[i].distance_km < calls[c].result[j].distance_km
                  \/ /\ calls[c].result[i].distance_km = calls[c].result[j].distance_km
                     /\ Position(calls[c].rows, calls[c].result[i].ambulance_id)
                          < Position(calls[c].rows, calls[c].result[j].ambulance_id)

(* a result holds two entries of equal distance_km, the greater           *)
(* ambulance_id first, behind a nearer entry that the store returned last *)
C16_Witness ==
  \E c \in CallIds :
    /\ Succeeded(c, "get_nearby_ambulances")
    /\ \E i, j \in DOMAIN calls[c].result :
         /\ i < j
         /\ calls[c].result[i].distance_km = calls[c].result[j].distance_km
         /\ calls[c].result[i].ambulance_id > calls[c].result[j].ambulance_id
    /\ \E i, j \in DOMAIN calls[c].result :
         /\ i < j
         /\ calls[c].result[i].distance_km < calls[c].result[j].distance_km
         /\ Position(calls[c].rows, calls[c].result[i].ambulance_id)
              > Position(calls[c].rows, calls[c].result[j].ambulance_id)

(* C17: a successful search returns the first min(limit, n) entries of    *)
(* the ranking of the n qualifying ambulances: no more than limit, none   *)
(* fewer, and no qualifying ambulance left out is strictly closer to the  *)
(* origin than a returned one.                                            *)
C17_TruncatesAfterRanking ==
  \A c \in CallIds :
    Succeeded(c, "get_nearby_ambulances")
    => /\ Len(calls[c].result) <= calls[c].data[4]
       /\ Len(calls[c].result) =
            (IF calls[c].data[4] < Cardinality(Qualifying(c))
             THEN calls[c].data[4] ELSE Cardinality(Qualifying(c)))
       /\ \A a \in Qualifying(c) \ Returned(c), b \in Returned(c) :
            ~(DistanceFrom(c, a) < DistanceFrom(c, b))

(* C18: a search whose latitude, longitude, radius_km or limit is out of  *)
(* range fails with a client error (4xx), a status that a storage or      *)
(* internal failure (500) does not have.                                  *)
C18_InvalidIsClientError ==
  \A c \in CallIds :
    (Done(c, "get_nearby_ambulances") /\ calls[c].data # NoData
       /\ ~NearbyAmbulanceRequest(calls[c].data))
    => calls[c].code \in 400 .. 499

(* the ranges NearbyAmbulanceRequest puts on latitude and longitude *)
InRange(latitude, longitude) ==
  /\ -90000000 <= latitude /\ latitude <= 90000000
  /\ -180000000 <= longitude /\ longitude <= 180000000

(* C19: request_ambulance validates the coordinates with the ranges of    *)
(* the search, and a call with a coordinate out of range creates nothing: *)
(* no stored request carries a location out of range.                     *)
C19_OutOfRangeCreatesNothing ==
  \A n \in notifications :
    n.title = "Ambulance Request" => InRange(n.message[7][2], n.message[7][3])

(* C20: a successful accept or decline of a request is followed by a      *)
(* notification addressed to the patient who created it. The handlers     *)
(* notify only within the call, so the notification is there when the     *)
(* call returns success or never.                                         *)
C20_PatientIsNotified ==
  [][\A c \in CallIds :
       ((accept_notify_patient(c) \/ reject_notify_patient(c)) /\ calls'[c].code = 200)
       => \E n \in notifications' \ notifications : n.user_id \in PatientUsers]_vars

(* C21: accept never ends partially done: when its update of the          *)
(* ambulance has been issued, the request is gone from the store exactly  *)
(* when the ambulance is unavailable.                                     *)
C21_AcceptIsAllOrNothing ==
  [][\A c \in CallIds :
       accept_update_ambulance(c)
       => ((\A n \in notifications' : n.notification_id # calls[c].nid)
             <=> ~ambulances'[calls[c].amb].is_available)]_vars

(* C22: a storage failure is never reported as NotFound and never as      *)
(* success: a caller whose ambulance (or patient profile) is in the store *)
(* is not answered 404 at the lookup of it, and a request_ambulance call  *)
(* answers 200 only when its insert has stored the request.               *)
C22_StorageFailureIsServerError ==
  [][\A c \in CallIds :
       /\ \A u \in Users, nid \in NotificationArgs, b \in BOOLEAN :
            (AmbulancesOfUser(u) # {}
               /\ (accept_request(c, u, nid) \/ complete_mission(c, u)
                     \/ update_availability(c, u, b)))
            => ~(calls'[c].pc = "done" /\ calls'[c].code = 404)
       /\ \A u \in DOMAIN patients, a \in AmbulanceArgs, loc \in PatientLocations :
            request_ambulance(c, u, a, loc)
            => ~(calls'[c].pc = "done" /\ calls'[c].code = 404)
       /\ (request_insert_notification(c) /\ calls'[c].code = 200)
            => notifications' # notifications]_vars

(* the steps of accept_request and reject_request that notify the patient *)
OutcomeStep(c) == accept_notify_patient(c) \/ reject_notify_patient(c)

(* C24: delivery is best effort. The last step of request_ambulance       *)
(* answers 200 whether or not the e-mail to the operator could be handed  *)
(* over, and the last step of accept_request and reject_request answers   *)
(* 200 whether or not the patient's message was stored; none of them      *)
(* changes an ambulance or removes or alters a stored notification.       *)
C24_DeliveryIsBestEffort ==
  [][\A c \in CallIds :
       (request_insert_notification(c) \/ OutcomeStep(c))
       => (/\ calls'[c].pc = "done" /\ calls'[c].code = 200
           /\ ambulances' = ambulances
           /\ notifications \subseteq notifications'
           /\ OutcomeStep(c) => ~PendingFor(calls[c].user, notifications' \ notifications))]_vars

(* a request was stored and answered 200 although the e-mail to the       *)
(* operator could not be handed over                                      *)
C24_Witness ==
  \E c \in CallIds :
    /\ Succeeded(c, "request_ambulance") /\ ~calls[c].emailed
    /\ PendingFor(ambulances[calls[c].amb].user_id, notifications)

(* C29: the delete of update_availability(true) removes only requests     *)
(* addressed to the caller: every notification it removes is a request of *)
(* type Ambulance whose user_id is the caller's, and every notification   *)
(* addressed to another user stays.                                       *)
C29_ClearIsConfinedToCaller ==
  [][\A c \in CallIds :
       availability_clear_requests(c)
       => (/\ \A n \in notifications \ notifications' :
                /\ n.user_id = calls[c].user /\ n.type = "Ambulance"
                /\ n.title = "Ambulance Request"
           /\ \A n \in notifications : n.user_id # calls[c].user => n \in notifications')]_vars

(* update_availability(true) has cleared the caller's request while a     *)
(* request addressed to another operator is still in the store            *)
C29_Witness ==
  \E c \in CallIds :
    /\ Succeeded(c, "update_availability") /\ calls[c].flag /\ calls[c].cleared = 1
    /\ \E n \in notifications : n.user_id \in Operators \ {calls[c].user}
    /\ ~PendingFor(calls[c].user, notifications)

(* the handlers of findNearby, createRequest, accept and decline *)
DispatchOps == {"get_nearby_ambulances", "request_ambulance", "accept_request", "reject_request"}

(* call c answers with a client error in this step *)
AnswersClientError(c) ==
  /\ calls[c].pc # "done" /\ calls'[c].pc = "done"
  /\ calls'[c].op \in DispatchOps /\ calls'[c].code \in {400, 404}
  /\ \A d \in CallIds \ {c} : calls'[d] = calls[d]

(* C23: a call of get_nearby_ambulances, request_ambulance, accept_request *)
(* or reject_request that answers 400 or 404 has changed no ambulance and  *)
(* no notification: the answering step changes neither table, and it is    *)
(* taken at the entry of the handler or at its first select, before any    *)
(* write of the call.                                                      *)
C23_ClientErrorChangesNothing ==
  [][\A c \in CallIds :
       AnswersClientError(c)
       => (/\ ambulances' = ambulances
           /\ notifications' = notifications
           /\ calls[c].pc \in {"idle", "select_ambulance", "select_notification"})]_vars

(* an operator's accept_request of a request that is not theirs was answered *)
(* 404 while the request is pending and both ambulances are available        *)
C23_Witness ==
  \E c \in CallIds :
    /\ Done(c, "accept_request") /\ calls[c].code = 404
    /\ AmbulancesOfUser(calls[c].user) # {}
    /\ \E n \in notifications : n.notification_id = calls[c].nid /\ n.user_id # calls[c].user
    /\ \A a \in DOMAIN ambulances : ambulances[a].is_available

(* the rows the select of accept_request and reject_request finds for     *)
(* request n in the set of rows ns                                        *)
Actionable(n, ns) ==
  {m \in ns : m.notification_id = n.notification_id /\ m.user_id = n.user_id
                 /\ m.type = n.type /\ m.title = n.title /\ m.message = n.message}

(* call c takes a step that may end request n: the delete of an accept or *)
(* a decline of n by its operator, or a step of complete_mission or       *)
(* update_availability of its operator                                    *)
Resolves(c, n) ==
  \/ /\ accept_delete_notification(c) \/ reject_delete_notification(c)
     /\ calls[c].nid = n.notification_id /\ calls[c].user = n.user_id
  \/ /\ complete_update_ambulance(c) \/ availability_update_ambulance(c)
           \/ availability_clear_requests(c)
     /\ calls[c].user = n.user_id

(* C25: a pending request stays in the store, still found by the select   *)
(* of accept_request and reject_request of its operator, over every step  *)
(* that is not the delete of its own accept or decline nor a step of      *)
(* complete_mission or update_availability of its operator; and while it  *)
(* is there an accept_request of it by its operator passes the select.    *)
C25_PendingStaysActionable ==
  [][/\ \A n \in notifications :
          (n.type = "Ambulance" /\ n.title = "Ambulance Request")
          => \/ Actionable(n, notifications') # {}
             \/ \E c \in CallIds : Resolves(c, n)
     /\ \A c \in CallIds :
          (accept_select_notification(c)
             /\ PendingFor(calls[c].user, SelectNotification(calls[c].nid, calls[c].user,
                                                             "Ambulance")))
          => calls'[c].pc = "delete_notification"]_vars

(* a request that was marked read, and whose operator has accepted another *)
(* request and is busy, is being accepted by its operator: the select has  *)
(* found it                                                                *)
C25_Witness ==
  \E c \in CallIds, n \in notifications :
    /\ At(c, "accept_request", "delete_notification")
    /\ calls[c].nid = n.notification_id /\ calls[c].user = n.user_id
    /\ n.is_read /\ n.title = "Ambulance Request"
    /\ ~ambulances[calls[c].amb].is_available
    /\ mission[calls[c].amb] # {}
    /\ ambulances[calls[c].amb].location # NoLocation

(* a step after the entry of update_location, update_availability,        *)
(* complete_mission or accept_request                                     *)
OperatorStep(c) ==
  \/ location_update_ambulance(c)
  \/ availability_update_ambulance(c) \/ availability_clear_requests(c)
  \/ complete_update_ambulance(c)
  \/ accept_select_notification(c) \/ accept_delete_notification(c)
  \/ accept_update_ambulance(c) \/ accept_notify_patient(c)

(* C26: the ambulance a call of update_location, update_availability,     *)
(* complete_mission or accept_request works on is an ambulance of its     *)
(* caller; its steps leave the row of every ambulance of another user as  *)
(* it was, and leave every request addressed to another user in the store.*)
C26_OwnAmbulanceOnly ==
  [][\A c \in CallIds :
       OperatorStep(c)
       => (/\ calls[c].amb \in AmbulancesOfUser(calls[c].user)
           /\ \A a \in DOMAIN ambulances :
                ambulances[a].user_id # calls[c].user => ambulances'[a] = ambulances[a]
           /\ \A n \in notifications :
                n.user_id # calls[c].user => n \in notifications')]_vars

(* op2 has reported a location and that the ambulance is not available,   *)
(* while the ambulance of op1 is available and has a pending request      *)
C26_Witness ==
  \E c \in CallIds, a \in AmbulancesOfUser("op2"), b \in AmbulancesOfUser("op1") :
    /\ Succeeded(c, "update_location") /\ calls[c].user = "op2"
    /\ ambulances[a].location # NoLocation /\ ~ambulances[a].is_available
    /\ mission[a] = {}
    /\ ambulances[b].is_available /\ PendingFor("op1", notifications)

(* ambulance a is unavailable and its operator has accepted a request     *)
(* since is_available was last written true                               *)
Busy(a) == ~ambulances[a].is_available /\ mission[a] # {}

(* call c, of the operator of ambulance a, writes the ambulance row in    *)
(* complete_mission, update_availability or update_location               *)
OwnReport(c, a) ==
  /\ calls[c].user = ambulances[a].user_id
  /\ \/ complete_update_ambulance(c)
     \/ availability_update_ambulance(c)
     \/ location_update_ambulance(c)

(* what every search and every request sees of the ambulances: a search   *)
(* returns only ambulances that are available when it runs, and a request *)
(* that reads its ambulance as unavailable is refused                     *)
UnavailableIsHidden ==
  \A c \in CallIds :
    /\ (calls[c].op = "idle" /\ calls'[c].op = "get_nearby_ambulances")
         => \A i \in DOMAIN calls'[c].result :
              ambulances[calls'[c].result[i].ambulance_id].is_available
    /\ ReadsUnavailable(c) => (calls'[c].pc = "done" /\ calls'[c].code # 200)

(* C27 as stated: an ambulance made unavailable by an accept becomes      *)
(* available again only in a step of complete_mission, update_availability*)
(* or update_location of its own operator; until then no search returns   *)
(* it and every request that reads it is refused.                         *)
C27_OnlyOwnOperatorFrees ==
  [][/\ \A a \in DOMAIN ambulances :
          (Busy(a) /\ ambulances'[a].is_available)
          => \E c \in CallIds : OwnReport(c, a)
     /\ UnavailableIsHidden]_vars

(* C27 amended: an ambulance made unavailable by an accept becomes        *)
(* available again only in a step of complete_mission, update_availability*)
(* or update_location of its own operator, or in the update of            *)
(* admin_update_ambulance by an administrator; until then no search       *)
(* returns it and every request that reads it is refused.                 *)
C27_OwnOperatorOrAdminFrees ==
  [][/\ \A a \in DOMAIN ambulances :
          (Busy(a) /\ ambulances'[a].is_available)
          => \E c \in CallIds :
               \/ OwnReport(c, a)
               \/ admin_update(c) /\ calls[c].user \in Admins /\ calls[c].amb = a
     /\ UnavailableIsHidden]_vars

(* while an ambulance is unavailable after an accept, a search has        *)
(* answered without it and a request for it has been refused              *)
C27_Witness ==
  \E a \in DOMAIN ambulances, c, d \in CallIds :
    /\ Busy(a)
    /\ Succeeded(c, "get_nearby_ambulances")
    /\ \A i \in DOMAIN calls[c].rows : calls[c].rows[i] # a
    /\ Done(d, "request_ambulance") /\ calls[d].amb = a /\ calls[d].code = 400

(* call c writes is_available = False on ambulance a: the update of an    *)
(* accept_request of the operator of a, or an update of update_availability, *)
(* update_location or admin_update_ambulance that carries is_available    *)
(* false                                                                  *)
SetsUnavailable(c, a) ==
  /\ calls[c].amb = a
  /\ \/ accept_update_ambulance(c) /\ calls[c].user = ambulances[a].user_id
     \/ availability_update_ambulance(c) /\ ~calls[c].flag
     \/ location_update_ambulance(c) /\ calls[c].avail = <<FALSE>>
     \/ admin_update(c) /\ calls[c].avail = <<FALSE>>

(* C30: is_available of an ambulance goes from true to false only in the  *)
(* update of an accept_request of its own operator, which then answers    *)
(* 200, or in an update of update_availability, update_location or        *)
(* admin_update_ambulance for that ambulance that carries is_available    *)
(* false; an update_location without is_available leaves the flag as it   *)
(* was.                                                                   *)
C30_OnlyAcceptOrReportSetsUnavailable ==
  [][\A c \in CallIds :
       /\ \A a \in DOMAIN ambulances :
            (ambulances[a].is_available /\ ~ambulances'[a].is_available)
            => \E d \in CallIds : SetsUnavailable(d, a)
       /\ accept_notify_patient(c) => calls'[c].code = 200
       /\ (location_update_ambulance(c) /\ calls[c].avail = << >>)
            => ambulances'[calls[c].amb].is_available
                 = ambulances[calls[c].amb].is_available]_vars

(* one ambulance is unavailable by an administrator's update, no request  *)
(* of it having been accepted, and the other by an accept of its operator *)
C30_Witness ==
  \E c \in CallIds, a, b \in DOMAIN ambulances :
    /\ Succeeded(c, "admin_update_ambulance") /\ calls[c].amb = a
    /\ ~ambulances[a].is_available /\ mission[a] = {}
    /\ Busy(b) /\ ambulances[b].location # NoLocation

(* C28: after any register_ambulance calls no user owns more than one     *)
(* ambulance row and no two rows have the same ambulance_number.          *)
C28_OneAmbulancePerOwnerAndNumber ==
  \A a, b \in DOMAIN ambulances :
    a # b => /\ ambulances[a].user_id # ambulances[b].user_id
             /\ ambulances[a].ambulance_number # ambulances[b].ambulance_number
====
